---- MODULE Spec2Model ----
(***************************************************************************)
(* Model of cifar10.py: construction of the DenseNet inference graph       *)
(* (conv2d, unit_layer, block, transition, inference), the loss()          *)
(* collection handling, the learning-rate schedule and the execution of    *)
(* one run of the op returned by train().                                  *)
(*                                                                         *)
(* Tensors are modelled by their static shapes.  A feature map is a record *)
(* [b, h, w, ch] where ch is the channel layout: a sequence of segments    *)
(* <<tag, n>> (n channels produced by the layer called tag), in channel    *)
(* order.                                                                  *)
(***************************************************************************)
EXTENDS Integers, Sequences, FiniteSets, TLC

VARIABLES
    pc,             \* position in the program being modelled
    depth,          \* FLAGS.depth
    growth_rate,    \* FLAGS.growth_rate
    batch_size,     \* FLAGS.batch_size
    training,       \* the training argument of inference()
    features,       \* the feature map most recently produced
    arg,            \* the feature map passed to the most recent layer call
    first_depth,    \* locals of inference()
    second_depth,
    third_depth,
    logits,         \* static shape of softmax_linear, <<>> before it exists
    num_penalties,  \* size of GraphKeys.REGULARIZATION_LOSSES
    num_update_ops, \* size of GraphKeys.UPDATE_OPS
    reg_losses,     \* values of the terms in GraphKeys.REGULARIZATION_LOSSES
    losses,         \* values of the terms in the 'losses' collection
    cross_entropy,  \* cross_entropy_mean of the fixed logits and labels
    returned,       \* the totals returned by the calls of loss(), in order
    global_step,    \* the global_step variable
    lr,             \* the learning rate, in units of 0.001
    initial_step,   \* global_step when the session starts
    params,         \* value of each trainable variable, in units of 0.001
    shadow,         \* per variable, what its moving average has folded in
    loss_avg_updates, \* number of updates of the loss moving averages
    bn_updates,     \* per batch-norm update op, how often it was applied
    update_ops,     \* GraphKeys.UPDATE_OPS of the training graph
    fetch,          \* the op the current or last session run fetches
    done,           \* ops of the current run that have executed
    grads,          \* the gradients computed in the current run
    num_updates,    \* global_step as read for the decay of the averages
    start,          \* the variables as they were when the run began
    completed,      \* number of completed runs of the train op
    runs            \* number of session runs begun

archVars == <<pc, depth, growth_rate, batch_size, training, features, arg,
              first_depth, second_depth, third_depth, logits,
              num_penalties, num_update_ops>>

lossVars == <<reg_losses, losses, cross_entropy, returned>>

schedVars == <<global_step, lr>>

trainVars == <<initial_step, params, shadow, loss_avg_updates, bn_updates,
               update_ops, fetch, done, grads, num_updates, start,
               completed, runs>>

vars == <<archVars, lossVars, schedVars, trainVars>>

(***************************************************************************)
(* Bounds of the model.                                                    *)
(***************************************************************************)
MaxDepth == 60
MaxImage == 18
MaxChannel == 2

Depths == 0..MaxDepth
GrowthRates == {1, 12}
BatchSizes == {1, 128}

(***************************************************************************)
(* Constants of the data set (cifar10_input) and of the network.           *)
(***************************************************************************)
IMAGE_SIZE == 32
NUM_CLASSES == 10

NoMap == [b |-> 0, h |-> 0, w |-> 0, ch |-> <<>>]

RECURSIVE SumSeg(_)
SumSeg(ch) == IF ch = <<>> THEN 0 ELSE ch[1][2] + SumSeg(Tail(ch))

\* features.get_shape()[3].value
NumChannels(f) == SumSeg(f.ch)

\* Rounding the quotient up instead of truncating it.
IntDivUp(n, d) == IF n >= 0 THEN (n + d - 1) \div d ELSE -((-n) \div d)

\* Python int(n / 3) under true division: truncation toward zero.
IntDiv(n, d) == IF n >= 0 THEN n \div d ELSE -((-n) \div d)

\* ceil(n / d) for n >= 0, d > 0
CeilDiv(n, d) == (n + d - 1) \div d

Max0(n) == IF n > 0 THEN n ELSE 0

(***************************************************************************)
(* Layers.                                                                 *)
(***************************************************************************)
\* padding='SAME': the output extent is ceil(input / stride).
conv2d(f, kernel_size, stride, out_channel, tag) ==
    [b |-> f.b, h |-> CeilDiv(f.h, stride), w |-> CeilDiv(f.w, stride),
     ch |-> << <<tag, out_channel>> >>]

\* batch_normalization, relu and dropout keep the shape; conv2d sets the
\* channel count.
unit_layer(f, out_channel, tag) == conv2d(f, 3, 1, out_channel, tag)

\* The operands of the concatenation in the other order.
concat3Swapped(f, unit) ==
    [b |-> f.b, h |-> f.h, w |-> f.w, ch |-> unit.ch \o f.ch]

\* tf.concat([features, unit], axis=3): batch, height and width are those
\* of the operands, the channels of unit follow the channels of features.
concat3(f, unit) ==
    [b |-> f.b, h |-> f.h, w |-> f.w, ch |-> f.ch \o unit.ch]

\* for i in range(depth): the body runs for i = 0 .. depth-1, and not at
\* all when depth <= 0.
RECURSIVE blockLoop(_, _, _, _)
blockLoop(f, i, d, g) ==
    IF i >= d THEN f
    ELSE blockLoop(concat3(f, unit_layer(f, g, <<"dense_layer", i>>)),
                   i + 1, d, g)

block(f, d, g) == blockLoop(f, 0, d, g)

\* padding='valid' pooling: extent floor((n - pool) / stride) + 1.
PoolValid(n, pool, stride) == ((n - pool) \div stride) + 1

\* Shape inference rejects a pooling window larger than the input.
PoolFails(f, pool) == f.h < pool \/ f.w < pool

average_pooling2d(f, pool, stride) ==
    [b |-> f.b, h |-> PoolValid(f.h, pool, stride),
     w |-> PoolValid(f.w, pool, stride), ch |-> f.ch]

\* A transition that leaves out the pooling.
transitionNoPool(f) == unit_layer(f, NumChannels(f), "transition")

transition(f) ==
    average_pooling2d(unit_layer(f, NumChannels(f), "transition"), 2, 2)

\* tf.reduce_mean(features, axis=[1, 2])
global_average_pooling2d(f) == <<f.b, NumChannels(f)>>

(***************************************************************************)
(* inference(): one action per variable scope.                             *)
(***************************************************************************)
Image(b) == [b |-> b, h |-> IMAGE_SIZE, w |-> IMAGE_SIZE,
             ch |-> << <<"image", 3>> >>]

\* Each batch_normalization built with training=True adds the updates of
\* moving_mean and moving_variance to UPDATE_OPS.
BnUpdates(n) == IF training THEN 2 * n ELSE 0

LossUnused ==
    /\ reg_losses = <<>>
    /\ losses = <<>>
    /\ cross_entropy = 0
    /\ returned = <<>>

SchedUnused ==
    /\ global_step = 0
    /\ lr = 0

TrainUnused ==
    /\ initial_step = 0
    /\ params = <<>>
    /\ shadow = <<>>
    /\ loss_avg_updates = 0
    /\ bn_updates = <<>>
    /\ update_ops = {}
    /\ fetch = <<>>
    /\ done = {}
    /\ grads = <<>>
    /\ num_updates = 0
    /\ start = <<>>
    /\ completed = 0
    /\ runs = 0

InitArch ==
    /\ LossUnused
    /\ SchedUnused
    /\ TrainUnused
    /\ pc = "start"
    /\ depth \in Depths
    /\ growth_rate \in GrowthRates
    /\ batch_size \in BatchSizes
    /\ training \in BOOLEAN
    /\ features = Image(batch_size)
    /\ arg = NoMap
    /\ first_depth = 0
    /\ second_depth = 0
    /\ third_depth = 0
    /\ logits = <<>>
    /\ num_penalties = 0
    /\ num_update_ops = 0

\* with tf.variable_scope('conv0')
Conv0 ==
    /\ pc = "start"
    /\ arg' = features
    /\ features' = conv2d(features, 3, 1, 16, "conv0")
    /\ num_penalties' = num_penalties + 1
    /\ pc' = "conv0"
    /\ UNCHANGED <<depth, growth_rate, batch_size, training, first_depth,
                   second_depth, third_depth, logits, num_update_ops>>
    /\ UNCHANGED <<lossVars, schedVars, trainVars>>

StageDepth(k) ==
    IF k = 3 THEN depth - (4 + first_depth + second_depth)
    ELSE IntDiv(depth - 4, 3)

StageStart(k) == IF k = 1 THEN "conv0" ELSE IF k = 2 THEN "dense1" ELSE "dense2"
StageBlock(k) == IF k = 1 THEN "block1" ELSE IF k = 2 THEN "block2" ELSE "block3"
StageEnd(k) == IF k = 1 THEN "dense1" ELSE IF k = 2 THEN "dense2" ELSE "dense3"

\* first_depth = ...; block1 = block(conv0, first_depth, ...)  (and the
\* same statements of 'dense2' and 'dense3')
DenseBlock(k) ==
    /\ pc = StageStart(k)
    /\ LET d == StageDepth(k) IN
        /\ first_depth' = IF k = 1 THEN d ELSE first_depth
        /\ second_depth' = IF k = 2 THEN d ELSE second_depth
        /\ third_depth' = IF k = 3 THEN d ELSE third_depth
        /\ arg' = features
        /\ features' = block(features, d, growth_rate)
        /\ num_penalties' = num_penalties + Max0(d)
        /\ num_update_ops' = num_update_ops + BnUpdates(Max0(d))
    /\ pc' = StageBlock(k)
    /\ UNCHANGED <<depth, growth_rate, batch_size, training, logits>>
    /\ UNCHANGED <<lossVars, schedVars, trainVars>>

\* dense1 = transition(block1, training, scope=scope)  (and dense2, dense3)
TransitionCall(from, to) ==
    /\ pc = from
    /\ arg' = features
    /\ IF PoolFails(features, 2)
       THEN /\ pc' = "error"
            /\ features' = NoMap
       ELSE /\ pc' = to
            /\ features' = transition(features)
    /\ num_penalties' = num_penalties + 1
    /\ num_update_ops' = num_update_ops + BnUpdates(1)
    /\ UNCHANGED <<depth, growth_rate, batch_size, training, first_depth,
                   second_depth, third_depth, logits>>
    /\ UNCHANGED <<lossVars, schedVars, trainVars>>

DenseTransition(k) == TransitionCall(StageBlock(k), StageEnd(k))

\* with tf.variable_scope('last')
Last ==
    /\ pc = "dense3"
    /\ pc' = "last"
    /\ arg' = features
    /\ num_update_ops' = num_update_ops + BnUpdates(1)
    /\ UNCHANGED <<depth, growth_rate, batch_size, training, features,
                   first_depth, second_depth, third_depth, logits,
                   num_penalties>>
    /\ UNCHANGED <<lossVars, schedVars, trainVars>>

\* with tf.variable_scope('softmax_linear'): tf.layers.dense keeps the
\* leading dimension and sets the last one to units; kernel and bias are
\* both regularized.
SoftmaxLinear ==
    /\ pc = "last"
    /\ pc' = "done"
    /\ logits' = <<global_average_pooling2d(features)[1], NUM_CLASSES>>
    /\ num_penalties' = num_penalties + 2
    /\ UNCHANGED <<depth, growth_rate, batch_size, training, features, arg,
                   first_depth, second_depth, third_depth, num_update_ops>>
    /\ UNCHANGED <<lossVars, schedVars, trainVars>>

NextArch ==
    \/ Conv0
    \/ \E k \in 1..3 : DenseBlock(k)
    \/ \E k \in 1..3 : DenseTransition(k)
    \/ Last
    \/ SoftmaxLinear

SpecArch == InitArch /\ [][NextArch]_vars

(***************************************************************************)
(* transition() applied to an arbitrary feature map.                       *)
(***************************************************************************)
InitTransition ==
    /\ LossUnused
    /\ SchedUnused
    /\ TrainUnused
    /\ pc = "transition_call"
    /\ depth = 0
    /\ growth_rate = 0
    /\ batch_size \in BatchSizes
    /\ training \in BOOLEAN
    /\ \E h \in 1..MaxImage, w \in 1..MaxImage, c \in 1..MaxChannel :
          features = [b |-> batch_size, h |-> h, w |-> w,
                      ch |-> << <<"input", c>> >>]
    /\ arg = NoMap
    /\ first_depth = 0
    /\ second_depth = 0
    /\ third_depth = 0
    /\ logits = <<>>
    /\ num_penalties = 0
    /\ num_update_ops = 0

CallTransition == TransitionCall("transition_call", "transition_ret")

SpecTransition == InitTransition /\ [][CallTransition]_vars

ArchUnused ==
    /\ depth = 0
    /\ growth_rate = 0
    /\ features = NoMap
    /\ arg = NoMap
    /\ first_depth = 0
    /\ second_depth = 0
    /\ third_depth = 0
    /\ logits = <<>>
    /\ num_penalties = 0
    /\ num_update_ops = 0

(***************************************************************************)
(* loss(): the graph holds some regularization terms (one per regularized  *)
(* kernel or bias); logits and labels, hence cross_entropy_mean, are the   *)
(* same in every call.  Values are in units of the smallest penalty.       *)
(***************************************************************************)
MaxPenalties == 3
MaxCalls == 3
PenaltyValues == {1, 2}
CrossEntropyValues == {1, 3}

RECURSIVE SumSeq(_)
SumSeq(s) == IF s = <<>> THEN 0 ELSE s[1] + SumSeq(Tail(s))

SeqsUpTo(S, n) == UNION {[1..k -> S] : k \in 0..n}

\* tf.add_n
add_n(s) == SumSeq(s)

InitLoss ==
    /\ ArchUnused
    /\ SchedUnused
    /\ TrainUnused
    /\ pc = "graph"
    /\ batch_size \in BatchSizes
    /\ training \in BOOLEAN
    /\ reg_losses \in SeqsUpTo(PenaltyValues, MaxPenalties)
    /\ losses = <<>>
    /\ cross_entropy \in CrossEntropyValues
    /\ returned = <<>>

\* get_collection_ref('losses') is the list stored in the graph: extend and
\* append change the collection itself.
CallLoss ==
    /\ pc = "graph"
    /\ Len(returned) < MaxCalls
    /\ losses' = Append(losses \o reg_losses, cross_entropy)
    /\ returned' = Append(returned, add_n(losses'))
    /\ UNCHANGED <<reg_losses, cross_entropy>>
    /\ UNCHANGED <<archVars, schedVars, trainVars>>

SpecLoss == InitLoss /\ [][CallLoss]_vars

(***************************************************************************)
(* The learning rate built by train().  num_epoch is the exact quotient    *)
(* global_step * batch_size / NUM_EXAMPLES_PER_EPOCH_FOR_TRAIN, kept as a  *)
(* numerator over that denominator; a float64 quotient of such integers    *)
(* compares with an integer boundary as the exact quotient does.  Rates    *)
(* are in units of 0.001.                                                  *)
(***************************************************************************)
\* Size of the CIFAR-10 training set, taken from cifar10_input.
NUM_EXAMPLES_PER_EPOCH_FOR_TRAIN == 50000
MaxGlobalStep == 3000
SchedBatchSizes == {128, 5000, 50000}

\* FLAGS.lr_boundaries = "150,225", FLAGS.lr_values = "0.1,0.01,0.001"
lr_boundaries == <<150, 225>>
lr_values == <<100, 10, 1>>

\* tf.train.piecewise_constant: values[1] when x <= boundaries[1],
\* values[k+1] when boundaries[k] < x <= boundaries[k+1], and the last
\* value when x is above the last boundary.  x = num / den.
RECURSIVE piecewiseFrom(_, _, _, _, _)
piecewiseFrom(k, num, den, boundaries, values) ==
    IF k > Len(boundaries) THEN values[Len(values)]
    ELSE IF num <= boundaries[k] * den THEN values[k]
    ELSE piecewiseFrom(k + 1, num, den, boundaries, values)

\* The same schedule with the rate changing at the boundary itself.
piecewiseClosed(num, den, boundaries, values) ==
    IF num < boundaries[1] * den THEN values[1]
    ELSE IF num < boundaries[2] * den THEN values[2]
    ELSE values[3]

piecewise_constant(num, den, boundaries, values) ==
    piecewiseFrom(1, num, den, boundaries, values)

LearningRate(step, batch) ==
    piecewise_constant(step * batch, NUM_EXAMPLES_PER_EPOCH_FOR_TRAIN,
                       lr_boundaries, lr_values)

InitSched ==
    /\ ArchUnused
    /\ LossUnused
    /\ TrainUnused
    /\ pc = "schedule"
    /\ batch_size \in SchedBatchSizes
    /\ training = TRUE
    /\ global_step \in 0..MaxGlobalStep
    /\ lr = 0

\* assert len(lr_boundaries)+1 == len(lr_values); lr = piecewise_constant(..)
EvalLearningRate ==
    /\ pc = "schedule"
    /\ Len(lr_boundaries) + 1 = Len(lr_values)
    /\ lr' = LearningRate(global_step, batch_size)
    /\ pc' = "scheduled"
    /\ UNCHANGED <<depth, growth_rate, batch_size, training, features, arg,
                   first_depth, second_depth, third_depth, logits,
                   num_penalties, num_update_ops, global_step>>
    /\ UNCHANGED <<lossVars, trainVars>>

SpecSched == InitSched /\ [][EvalLearningRate]_vars

(***************************************************************************)
(* Session runs on the graph built by train().  A run executes every op    *)
(* the fetched op depends on, each once, an op only after the ops it       *)
(* depends on (data inputs and control inputs); ops with no path between   *)
(* them execute in either order.                                           *)
(***************************************************************************)
MaxRuns == 2
Params == {"kernel", "bias"}
UpdateOpNames == {"moving_mean", "moving_variance"}
GradValues == {0, 1}
InitialSteps == {0, 58593}
Fetches == {<<"train">>, <<"total_loss">>, <<"loss_averages_op">>,
            <<"variables_averages_op">>}

\* The graph with a train op that does not wait for UPDATE_OPS.
DepsWithoutUpdateOps(op) ==
    CASE op = <<"loss_averages_op">> -> {}
      [] op = <<"compute_gradients">> -> {<<"loss_averages_op">>}
      [] op[1] = "apply" -> {<<"compute_gradients">>}
      [] op = <<"apply_gradient_op">> -> {<<"apply", p>> : p \in Params}
      [] op = <<"decay">> -> {}
      [] op[1] = "average" -> {<<"decay">>}
      [] op = <<"variables_averages_op">> -> {<<"average", p>> : p \in Params}
      [] op[1] = "update" -> {}
      [] op = <<"train">> ->
            {<<"apply_gradient_op">>, <<"variables_averages_op">>}
      [] OTHER -> {}

\* The inputs of each op of the graph.
Deps(op) ==
    CASE op = <<"loss_averages_op">> -> {}
      [] op = <<"compute_gradients">> -> {<<"loss_averages_op">>}
      [] op[1] = "apply" -> {<<"compute_gradients">>}
      [] op = <<"apply_gradient_op">> -> {<<"apply", p>> : p \in Params}
      [] op = <<"decay">> -> {}
      [] op[1] = "average" -> {<<"decay">>}
      [] op = <<"variables_averages_op">> -> {<<"average", p>> : p \in Params}
      [] op[1] = "update" -> {}
      [] op = <<"train">> ->
            {<<"apply_gradient_op">>, <<"variables_averages_op">>}
               \cup {<<"update", u>> : u \in update_ops}
      [] OTHER -> {}

RECURSIVE Closure(_)
Closure(S) ==
    LET T == S \cup UNION {Deps(o) : o \in S}
    IN  IF T = S THEN S ELSE Closure(T)

\* The ops a run fetching f executes.
Needed(f) == Closure({f})

Ready(op) ==
    /\ pc = "running"
    /\ op \in Needed(fetch)
    /\ op \notin done
    /\ Deps(op) \subseteq done

Snapshot ==
    [global_step |-> global_step,
     params |-> params,
     folds |-> [p \in Params |-> Len(shadow[p])],
     loss_avg_updates |-> loss_avg_updates,
     bn_updates |-> bn_updates]

InitTrain ==
    /\ ArchUnused
    /\ LossUnused
    /\ pc = "idle"
    /\ batch_size = 128
    /\ training \in BOOLEAN
    /\ global_step \in InitialSteps
    /\ initial_step = global_step
    /\ lr = LearningRate(global_step, batch_size)
    /\ params = [p \in Params |-> 0]
    /\ shadow = [p \in Params |-> <<>>]
    /\ loss_avg_updates = 0
    /\ bn_updates = [u \in UpdateOpNames |-> 0]
    /\ update_ops = IF training THEN UpdateOpNames ELSE {}
    /\ fetch = <<"none">>
    /\ done = {}
    /\ grads = [p \in Params |-> 0]
    /\ num_updates = global_step
    /\ start = Snapshot
    /\ completed = 0
    /\ runs = 0

\* sess.run(f)
SessionRun(f) ==
    /\ pc = "idle"
    /\ runs < MaxRuns
    /\ pc' = "running"
    /\ fetch' = f
    /\ done' = {}
    /\ start' = Snapshot
    /\ runs' = runs + 1
    /\ UNCHANGED <<batch_size, training, global_step, lr, initial_step,
                   params, shadow, loss_avg_updates, bn_updates, update_ops,
                   grads, num_updates, completed>>
    /\ UNCHANGED <<depth, growth_rate, features, arg, first_depth,
                   second_depth, third_depth, logits, num_penalties,
                   num_update_ops, lossVars>>

\* What every op execution leaves alone.
OpFrame(op) ==
    /\ done' = done \cup {op}
    /\ UNCHANGED <<pc, batch_size, training, initial_step, update_ops, fetch,
                   start, completed, runs>>
    /\ UNCHANGED <<depth, growth_rate, features, arg, first_depth,
                   second_depth, third_depth, logits, num_penalties,
                   num_update_ops, lossVars>>

\* loss_averages_op = loss_averages.apply(losses + [total_loss])
RunLossAverages ==
    /\ Ready(<<"loss_averages_op">>)
    /\ loss_avg_updates' = loss_avg_updates + 1
    /\ OpFrame(<<"loss_averages_op">>)
    /\ UNCHANGED <<global_step, lr, params, shadow, bn_updates, grads,
                   num_updates>>

\* grads = opt.compute_gradients(total_loss), under the control dependency
\* on loss_averages_op; the gradient of each variable depends on the batch.
RunComputeGradients ==
    /\ Ready(<<"compute_gradients">>)
    /\ grads' \in [Params -> GradValues]
    /\ OpFrame(<<"compute_gradients">>)
    /\ UNCHANGED <<global_step, lr, params, shadow, loss_avg_updates,
                   bn_updates, num_updates>>

\* The update of one variable in opt.apply_gradients: var -= lr * grad.
RunApplyGradient(p) ==
    /\ Ready(<<"apply", p>>)
    /\ lr' = LearningRate(global_step, batch_size)
    /\ params' = [params EXCEPT ![p] = @ - lr' * grads[p]]
    /\ OpFrame(<<"apply", p>>)
    /\ UNCHANGED <<global_step, shadow, loss_avg_updates, bn_updates, grads,
                   num_updates>>

\* A gradient application that does not count the step.
RunApplyGradientOpNoStep ==
    /\ Ready(<<"apply_gradient_op">>)
    /\ OpFrame(<<"apply_gradient_op">>)
    /\ UNCHANGED <<global_step, lr, params, shadow, loss_avg_updates,
                   bn_updates, grads, num_updates>>

\* apply_gradient_op: after the updates of all variables, global_step += 1.
RunApplyGradientOp ==
    /\ Ready(<<"apply_gradient_op">>)
    /\ global_step' = global_step + 1
    /\ OpFrame(<<"apply_gradient_op">>)
    /\ UNCHANGED <<lr, params, shadow, loss_avg_updates, bn_updates, grads,
                   num_updates>>

\* ExponentialMovingAverage(MOVING_AVERAGE_DECAY, global_step): the decay
\* is min(decay, (1 + num_updates) / (10 + num_updates)) of the global_step
\* it reads.
RunDecay ==
    /\ Ready(<<"decay">>)
    /\ num_updates' = global_step
    /\ OpFrame(<<"decay">>)
    /\ UNCHANGED <<global_step, lr, params, shadow, loss_avg_updates,
                   bn_updates, grads>>

\* The moving-average update of one variable in variable_averages.apply:
\* shadow -= (1 - decay) * (shadow - var), with var as it is read now.
RunAverage(p) ==
    /\ Ready(<<"average", p>>)
    /\ shadow' = [shadow EXCEPT ![p] =
                    Append(@, [value |-> params[p],
                               num_updates |-> num_updates])]
    /\ OpFrame(<<"average", p>>)
    /\ UNCHANGED <<global_step, lr, params, loss_avg_updates, bn_updates,
                   grads, num_updates>>

\* variables_averages_op groups the updates of all variables.
RunVariablesAveragesOp ==
    /\ Ready(<<"variables_averages_op">>)
    /\ OpFrame(<<"variables_averages_op">>)
    /\ UNCHANGED <<global_step, lr, params, shadow, loss_avg_updates,
                   bn_updates, grads, num_updates>>

\* One of update_ops = tf.get_collection(tf.GraphKeys.UPDATE_OPS).
RunUpdateOp(u) ==
    /\ Ready(<<"update", u>>)
    /\ bn_updates' = [bn_updates EXCEPT ![u] = @ + 1]
    /\ OpFrame(<<"update", u>>)
    /\ UNCHANGED <<global_step, lr, params, shadow, loss_avg_updates, grads,
                   num_updates>>

\* train_op = tf.no_op(name='train')
RunTrainOp ==
    /\ Ready(<<"train">>)
    /\ OpFrame(<<"train">>)
    /\ UNCHANGED <<global_step, lr, params, shadow, loss_avg_updates,
                   bn_updates, grads, num_updates>>

\* Evaluating the tensor returned by loss() reads the variables only.
RunTotalLoss ==
    /\ Ready(<<"total_loss">>)
    /\ OpFrame(<<"total_loss">>)
    /\ UNCHANGED <<global_step, lr, params, shadow, loss_avg_updates,
                   bn_updates, grads, num_updates>>

\* The run returns when every op it needs has executed.
SessionReturn ==
    /\ pc = "running"
    /\ Needed(fetch) \subseteq done
    /\ pc' = "idle"
    /\ completed' = IF fetch = <<"train">> THEN completed + 1 ELSE completed
    /\ UNCHANGED <<batch_size, training, global_step, lr, initial_step,
                   params, shadow, loss_avg_updates, bn_updates, update_ops,
                   fetch, done, grads, num_updates, start, runs>>
    /\ UNCHANGED <<depth, growth_rate, features, arg, first_depth,
                   second_depth, third_depth, logits, num_penalties,
                   num_update_ops, lossVars>>

NextTrain ==
    \/ \E f \in Fetches : SessionRun(f)
    \/ RunLossAverages
    \/ RunComputeGradients
    \/ \E p \in Params : RunApplyGradient(p)
    \/ RunApplyGradientOp
    \/ RunDecay
    \/ \E p \in Params : RunAverage(p)
    \/ RunVariablesAveragesOp
    \/ \E u \in UpdateOpNames : RunUpdateOp(u)
    \/ RunTrainOp
    \/ RunTotalLoss
    \/ SessionReturn

SpecTrain == InitTrain /\ [][NextTrain]_vars

(***************************************************************************)
(* Properties.                                                             *)
(***************************************************************************)
BuiltStages == {"block1", "dense1", "block2", "dense2", "block3", "dense3",
                "last", "done"}

AllDepthsSet == {"block3", "dense3", "last", "done"}

\* C1: every call of loss() on the same logits, labels and parameters
\* returns the same total, the cross entropy plus each registered penalty
\* counted once.
C1_LossIdempotent ==
    \A i \in 1..Len(returned) :
        returned[i] = SumSeq(reg_losses) + cross_entropy

\* C3: for depth >= 4 the stage depths are first = second =
\* floor((depth-4)/3) and third = depth - 4 - first - second, they add up
\* with 4 to depth, and none is negative.
C3_StageDepths ==
    (depth >= 4 /\ pc \in AllDepthsSet) =>
        /\ first_depth = (depth - 4) \div 3
        /\ second_depth = (depth - 4) \div 3
        /\ third_depth = depth - 4 - first_depth - second_depth
        /\ 4 + first_depth + second_depth + third_depth = depth
        /\ first_depth >= 0
        /\ second_depth >= 0
        /\ third_depth >= 0

C3_Witness ==
    /\ pc = "done"
    /\ depth = 40
    /\ first_depth = 12
    /\ second_depth = 12
    /\ third_depth = 12

\* C4: with depth < 4 the construction fails before any dense stage is
\* built; no stage and no network is built from such a depth.
C4_DepthBelow4Rejected ==
    depth < 4 => pc \notin BuiltStages

\* C5: transition() either returns a map of exactly half the height and
\* half the width of an input whose height and width are even, or raises
\* an error when one of them is odd.
C5_TransitionHalvesOrRaises ==
    pc \in {"transition_ret", "error"} =>
        IF arg.h % 2 = 0 /\ arg.w % 2 = 0
        THEN /\ pc = "transition_ret"
             /\ 2 * features.h = arg.h
             /\ 2 * features.w = arg.w
        ELSE pc = "error"

\* C6 as stated: the rate is values[k-1] immediately before boundary k and
\* values[k] at and after it.
C6_ChangesAtBoundary ==
    pc = "scheduled" =>
        LET num == global_step * batch_size
            den == NUM_EXAMPLES_PER_EPOCH_FOR_TRAIN
        IN  /\ num < 150 * den => lr = 100
            /\ (num >= 150 * den /\ num < 225 * den) => lr = 10
            /\ num >= 225 * den => lr = 1

\* C6 amended: the rate is 0.1 up to and at epoch 150, 0.01 above 150 up
\* to and at 225, and 0.001 above 225; so 0.1 at epoch 100, 0.01 at 200,
\* 0.001 at 300.
C6_ChangesAfterBoundary ==
    pc = "scheduled" =>
        LET num == global_step * batch_size
            den == NUM_EXAMPLES_PER_EPOCH_FOR_TRAIN
        IN  /\ num <= 150 * den => lr = 100
            /\ (num > 150 * den /\ num <= 225 * den) => lr = 10
            /\ num > 225 * den => lr = 1
            /\ num = 100 * den => lr = 100
            /\ num = 200 * den => lr = 10
            /\ num = 300 * den => lr = 1

C6_Witness ==
    /\ pc = "scheduled"
    /\ global_step * batch_size = 150 * NUM_EXAMPLES_PER_EPOCH_FOR_TRAIN
    /\ lr = 100

\* The depth passed to the block() call that produced features.
BlockDepth ==
    IF pc = "block1" THEN first_depth
    ELSE IF pc = "block2" THEN second_depth ELSE third_depth

\* C9: block() with depth N >= 0 keeps batch, height and width and returns
\* the input's channels followed by growth_rate channels of each unit in
\* creation order, C + N*growth_rate channels in all.
C9_BlockChannels ==
    (pc \in {"block1", "block2", "block3"} /\ BlockDepth >= 0) =>
        /\ features.b = arg.b
        /\ features.h = arg.h
        /\ features.w = arg.w
        /\ NumChannels(features) = NumChannels(arg) + BlockDepth * growth_rate
        /\ features.ch = arg.ch \o
              [i \in 1..BlockDepth |-> << <<"dense_layer", i - 1>>, growth_rate>>]
        /\ BlockDepth = 0 => NumChannels(features) = NumChannels(arg)

C9_Witness ==
    /\ pc = "block2"
    /\ second_depth = 12
    /\ growth_rate = 12
    /\ NumChannels(arg) = 160
    /\ NumChannels(features) = 304

\* C10: for depth >= 4, either value of training and a batch of 32x32x3
\* images the logits have shape [batch_size, NUM_CLASSES]; the batch
\* dimension never changes and height and width are 32 up to the first
\* transition, 16 up to the second, 8 up to the third and 4 after it.
C10_LogitsShape ==
    depth >= 4 =>
        /\ features.b = batch_size
        /\ features.h = features.w
        /\ pc \in {"start", "conv0", "block1"} => features.h = 32
        /\ pc \in {"dense1", "block2"} => features.h = 16
        /\ pc \in {"dense2", "block3"} => features.h = 8
        /\ pc \in {"dense3", "last", "done"} => features.h = 4
        /\ pc # "error"
        /\ pc = "done" => logits = <<batch_size, 10>>

C10_Witness ==
    /\ pc = "done"
    /\ depth = 40
    /\ ~training
    /\ batch_size = 128
    /\ logits = <<128, 10>>

TrainReturned == pc = "idle" /\ fetch = <<"train">>

\* C2: in a run of the train op the moving average of every variable is
\* updated after the gradient update of that variable, so what it folds in
\* is the updated value.
C2_AverageReadsUpdated ==
    TrainReturned =>
        \A p \in Params :
            /\ Len(shadow[p]) > 0
            /\ shadow[p][Len(shadow[p])].value = params[p]

\* C7: global_step is its initial value plus the number of completed runs
\* of the train op; a run of the train op raises it by exactly 1, at no
\* point by more, and a run of any other op leaves it as it was.
C7_GlobalStepCounts ==
    /\ global_step \in {start.global_step, start.global_step + 1}
    /\ pc = "idle" => global_step = initial_step + completed
    /\ TrainReturned => global_step = start.global_step + 1
    /\ fetch # <<"train">> => global_step = start.global_step

C7_Witness ==
    /\ pc = "idle"
    /\ completed = 2
    /\ initial_step = 58593
    /\ global_step = 58595

\* C8: when a run of the train op returns, the gradient update of every
\* variable, the step increment, one moving-average update of every
\* variable, one update of the loss averages and one application of every
\* op in UPDATE_OPS have all happened in that run.
C8_StepAppliesAll ==
    TrainReturned =>
        /\ global_step = start.global_step + 1
        /\ \A p \in Params :
              /\ params[p] = start.params[p]
                    - LearningRate(start.global_step, batch_size) * grads[p]
              /\ Len(shadow[p]) = start.folds[p] + 1
        /\ loss_avg_updates = start.loss_avg_updates + 1
        /\ \A u \in update_ops : bn_updates[u] = start.bn_updates[u] + 1
        /\ \A u \in UpdateOpNames \ update_ops : bn_updates[u] = 0

C8_Witness ==
    /\ TrainReturned
    /\ training
    /\ completed = 2
    /\ loss_avg_updates = 2
    /\ \A u \in UpdateOpNames : bn_updates[u] = 2
    /\ \E p \in Params : params[p] # start.params[p]

====
